---- MODULE Spec2Model ----
(***************************************************************************)
(* State-machine model of src/src/sfm.hpp: the visibility key encoding     *)
(* (genKey / getImIdx / getPtIdx), the residual builders addCostFunc11DOF, *)
(* addCostFunc7DOF, addCostFunc6DOF, the residual functors, and the        *)
(* outlier marker markNoisyPoints.                                         *)
(*                                                                         *)
(* Number representations                                                  *)
(*  - uint (32 bit unsigned) is a record [hi, lo] of two 16-bit halves,    *)
(*    value hi * 2^16 + lo, so that arithmetic wraps at 2^32 exactly.      *)
(*  - double values computed by the projection are extended rationals:     *)
(*    [k |-> "fin", n, d] (the fraction n/d, d > 0), [k |-> "inf"] with    *)
(*    n = 1 or -1, and [k |-> "nan"]; rounding is not modelled.            *)
(*  - a point's third coordinate is kept in sign-magnitude form            *)
(*    [neg, mag], as an IEEE double keeps it, so that -0.0 is a value.     *)
(*  - rotation vectors are axis-aligned and counted in quarter turns       *)
(*    (one unit = pi/2), which makes the rotation matrix integral.         *)
(***************************************************************************)
EXTENDS Integers, Sequences, FiniteSets, TLC

VARIABLES Xs, xs, views, visibility, problem, op, nWrites, kImg, kPt, kKey

vars == <<Xs, xs, views, visibility, problem, op, nWrites, kImg, kPt, kKey>>

worldVars == <<Xs, xs, views, visibility, problem, op, nWrites>>

keyVars == <<kImg, kPt, kKey>>

(***************************************************************************)
(* 32-bit unsigned arithmetic                                              *)
(***************************************************************************)
\* 2^16: the shift distance of genKey and the mask 0xFFFF + 1.
Half == 65536

U32(hi, lo) == [hi |-> hi, lo |-> lo]

ToU32(n) == U32(n \div Half, n % Half)

\* a + b modulo 2^32
Add32(a, b) ==
    LET s == a.lo + b.lo
    IN  U32((a.hi + b.hi + (s \div Half)) % Half, s % Half)

\* u << 16 modulo 2^32
Shl16(u) == U32(u.lo, 0)

\* u >> 16
Shr16(u) == U32(0, u.hi)

\* u & 0xFFFF
Mask16(u) == U32(0, u.lo)

genKey_NoShift(img_idx, pt_idx) == Add32(img_idx, pt_idx)

genKey(img_idx, pt_idx) == Add32(Shl16(img_idx), pt_idx)

getImIdx(key) == Mask16(Shr16(key))

getPtIdx_NoMask(key) == key

getPtIdx(key) == Mask16(key)

\* uint -> int conversion of a value below 2^31
ToInt(u) == u.hi * Half + u.lo

(***************************************************************************)
(* double arithmetic on extended rationals                                 *)
(***************************************************************************)
RECURSIVE GCD(_, _)
GCD(a, b) == IF b = 0 THEN a ELSE GCD(b, a % b)

Abs(n) == IF n < 0 THEN -n ELSE n

Sign(n) == IF n < 0 THEN -1 ELSE IF n > 0 THEN 1 ELSE 0

NaN == [k |-> "nan", n |-> 0, d |-> 0]

Inf(s) == [k |-> "inf", n |-> s, d |-> 0]

\* n / d with d > 0 (not reduced)
Fin(n, d) == [k |-> "fin", n |-> IF d < 0 THEN -n ELSE n, d |-> IF d < 0 THEN -d ELSE d]

F(n) == [k |-> "fin", n |-> n, d |-> 1]

\* n / d in lowest terms
Reduced(a) ==
    IF a.k # "fin" THEN a
    ELSE LET g == GCD(Abs(a.n), a.d) IN [k |-> "fin", n |-> a.n \div g, d |-> a.d \div g]

FNeg(a) == IF a.k = "nan" THEN NaN ELSE [a EXCEPT !.n = -a.n]

FAdd(a, b) ==
    IF a.k = "nan" \/ b.k = "nan" THEN NaN
    ELSE IF a.k = "inf" /\ b.k = "inf" THEN (IF a.n = b.n THEN a ELSE NaN)
    ELSE IF a.k = "inf" THEN a
    ELSE IF b.k = "inf" THEN b
    ELSE IF a.d = b.d THEN [k |-> "fin", n |-> a.n + b.n, d |-> a.d]
    ELSE IF a.d = 1 THEN [k |-> "fin", n |-> a.n * b.d + b.n, d |-> b.d]
    ELSE IF b.d = 1 THEN [k |-> "fin", n |-> a.n + b.n * a.d, d |-> a.d]
    ELSE [k |-> "fin", n |-> a.n * b.d + b.n * a.d, d |-> a.d * b.d]

FSub(a, b) == FAdd(a, FNeg(b))

FMul(a, b) ==
    IF a.k = "nan" \/ b.k = "nan" THEN NaN
    ELSE IF a.k = "inf" \/ b.k = "inf"
         THEN (IF a.n = 0 \/ b.n = 0 THEN NaN ELSE Inf(Sign(a.n) * Sign(b.n)))
    ELSE [k |-> "fin", n |-> a.n * b.n, d |-> a.d * b.d]

\* x / 0 is an infinity for x # 0 and NaN for x = 0; the sign of a zero
\* divisor is not kept (every use below squares the quotient).
FDiv(a, b) ==
    IF a.k = "nan" \/ b.k = "nan" THEN NaN
    ELSE IF a.k = "inf" /\ b.k = "inf" THEN NaN
    ELSE IF a.k = "inf" THEN Inf(IF b.n < 0 THEN -a.n ELSE a.n)
    ELSE IF b.k = "inf" THEN F(0)
    ELSE IF b.n = 0 THEN (IF a.n = 0 THEN NaN ELSE Inf(Sign(a.n)))
    ELSE Fin(a.n * b.d, a.d * b.n)

\* a > b; false when either side is NaN
FGt(a, b) ==
    IF a.k = "nan" \/ b.k = "nan" THEN FALSE
    ELSE IF a.k = "inf" THEN a.n > 0 /\ ~(b.k = "inf" /\ b.n > 0)
    ELSE IF b.k = "inf" THEN b.n < 0
    ELSE a.n * b.d > b.n * a.d

(***************************************************************************)
(* Rotation: cv::Rodrigues and ceres::AngleAxisRotatePoint on axis-aligned *)
(* rotation vectors counted in quarter turns                               *)
(***************************************************************************)
Cos4(q) == CASE q % 4 = 0 -> 1 [] q % 4 = 1 -> 0 [] q % 4 = 2 -> -1 [] OTHER -> 0

Sin4(q) == CASE q % 4 = 0 -> 0 [] q % 4 = 1 -> 1 [] q % 4 = 2 -> 0 [] OTHER -> -1

AxisAligned(rvec) == Cardinality({i \in 1..3 : rvec[i] # 0}) <= 1

\* R = cos(theta) I + (1 - cos(theta)) r r^T + sin(theta) [r]x, theta = |rvec|,
\* r = rvec / theta; the identity for theta = 0.
Rodrigues(rvec) ==
    LET theta == Abs(rvec[1]) + Abs(rvec[2]) + Abs(rvec[3])
        rx    == Sign(rvec[1])
        ry    == Sign(rvec[2])
        rz    == Sign(rvec[3])
        c     == Cos4(theta)
        s     == Sin4(theta)
    IN  IF theta = 0
        THEN << <<1, 0, 0>>, <<0, 1, 0>>, <<0, 0, 1>> >>
        ELSE << <<c + (1 - c) * rx * rx, (1 - c) * rx * ry - s * rz, (1 - c) * rx * rz + s * ry>>,
                <<(1 - c) * ry * rx + s * rz, c + (1 - c) * ry * ry, (1 - c) * ry * rz - s * rx>>,
                <<(1 - c) * rz * rx - s * ry, (1 - c) * rz * ry + s * rx, c + (1 - c) * rz * rz>> >>

MatVec(R, v) ==
    << R[1][1] * v[1] + R[1][2] * v[2] + R[1][3] * v[3],
       R[2][1] * v[1] + R[2][2] * v[2] + R[2][3] * v[3],
       R[3][1] * v[1] + R[3][2] * v[2] + R[3][3] * v[3] >>

AngleAxisRotatePoint(angle_axis, pt) == MatVec(Rodrigues(angle_axis), pt)

(***************************************************************************)
(* Points and cameras                                                      *)
(***************************************************************************)
\* the value of a third coordinate kept as [neg, mag]
ZVal(z) == IF z.neg THEN -z.mag ELSE z.mag

\* a cv::Point3d as the vector <<x, y, z>>
Vec3(X) == <<X.x, X.y, ZVal(X.z)>>

\* X.z < 0 (false for -0.0)
ZNegative(X) == X.z.neg /\ X.z.mag > 0

NegateZ_WholePoint(X) ==
    [x |-> -X.x, y |-> -X.y, z |-> [neg |-> ~X.z.neg, mag |-> X.z.mag]]

\* X.z *= -1
NegateZ(X) == [X EXCEPT !.z = [neg |-> ~X.z.neg, mag |-> X.z.mag]]

\* camera vector entry k (0-based, as in the source) of a Vec11d
At(view, k) == view[k + 1]

(***************************************************************************)
(* Residual functors                                                       *)
(***************************************************************************)
\* ReprojectionError11DOF::operator(): residual of observation x for the
\* 11 camera parameters and the point.
ReprojectionError11DOF(x, camera, point) ==
    LET R   == AngleAxisRotatePoint(<<At(camera, 0), At(camera, 1), At(camera, 2)>>, point)
        X0  == F(R[1] + At(camera, 3))
        X1  == F(R[2] + At(camera, 4))
        X2  == F(R[3] + At(camera, 5))
        f   == F(At(camera, 6))
        cx  == F(At(camera, 7))
        cy  == F(At(camera, 8))
        k1  == F(At(camera, 9))
        k2  == F(At(camera, 10))
        x_n == FDiv(X0, X2)
        y_n == FDiv(X1, X2)
        r2  == FAdd(FMul(x_n, x_n), FMul(y_n, y_n))
        radial_distort == FAdd(F(1), FMul(r2, FAdd(k1, FMul(k2, r2))))
        x_p == FAdd(FMul(FMul(f, radial_distort), x_n), cx)
        y_p == FAdd(FMul(FMul(f, radial_distort), y_n), cy)
    IN  <<FSub(F(x[1]), x_p), FSub(F(x[2]), y_p)>>

\* ReprojectionError7DOF::operator(): the principal point is the member c,
\* the camera block holds rotation, translation and focal length.
ReprojectionError7DOF(x, c, camera, point) ==
    LET R   == AngleAxisRotatePoint(<<At(camera, 0), At(camera, 1), At(camera, 2)>>, point)
        X0  == F(R[1] + At(camera, 3))
        X1  == F(R[2] + At(camera, 4))
        X2  == F(R[3] + At(camera, 5))
        f   == F(At(camera, 6))
        x_p == FAdd(FDiv(FMul(f, X0), X2), F(c[1]))
        y_p == FAdd(FDiv(FMul(f, X1), X2), F(c[2]))
    IN  <<FSub(F(x[1]), x_p), FSub(F(x[2]), y_p)>>

\* d.x * d.x + d.y * d.y for d = x - x_p
Distance2(x, x_p) ==
    LET dx == FSub(F(x[1]), x_p[1])
        dy == FSub(F(x[2]), x_p[2])
    IN  FAdd(FMul(dx, dx), FMul(dy, dy))

\* x_p = f * radial_distort * x_n + c, given s = f * radial_distort
Distort(s, x_n, c) == <<FAdd(FMul(s, x_n[1]), c[1]), FAdd(FMul(s, x_n[2]), c[2])>>

\* radial_distort = 1 + r2 * (k1 + k2 * r2)
RadialDistort(r2, k1, k2) == FAdd(F(1), FMul(r2, FAdd(k1, FMul(k2, r2))))

\* r2 = x_n.x * x_n.x + x_n.y * x_n.y
Radius2(x_n) == FAdd(FMul(x_n[1], x_n[1]), FMul(x_n[2], x_n[2]))

\* the pixel the full camera model predicts for the normalized point x_n
Pixel(x_n, f, c, k1, k2) == Distort(FMul(f, RadialDistort(Radius2(x_n), k1, k2)), x_n, c)

\* x_n = (X_p.x / X_p.z, X_p.y / X_p.z)
Normalize(X_p) == <<FDiv(F(X_p[1]), F(X_p[3])), FDiv(F(X_p[2]), F(X_p[3]))>>

\* X_p = R * X + t
Transform(X, view) ==
    LET RX == MatVec(Rodrigues(<<At(view, 0), At(view, 1), At(view, 2)>>), Vec3(X))
    IN  <<RX[1] + At(view, 3), RX[2] + At(view, 4), RX[3] + At(view, 5)>>

\* The squared pixel distance markNoisyPoints computes for one visibility
\* entry: d.x * d.x + d.y * d.y for the full camera model.
ReprojError2(X, x, view) ==
    Distance2(x, Pixel(Normalize(Transform(X, view)), F(At(view, 6)),
                       <<F(At(view, 7)), F(At(view, 8))>>, F(At(view, 9)), F(At(view, 10))))

(***************************************************************************)
(* The reconstruction state the marker and the builders work on            *)
(***************************************************************************)
\* largest magnitude of a point's third coordinate
MaxMag == 1

\* largest number of residual blocks of a problem
MaxBlocks == 2

\* largest number of single-entry camera writes in a run
MaxWrites == 1

Imgs == {0, 1}

Kps == {0}

PtIds == {0, 1}

ZSet == {z \in [neg : BOOLEAN, mag : 0..MaxMag] : ~(z.neg /\ z.mag = 0)}

XYSet == {<<0, 0>>, <<1, 0>>, <<1, 1>>}

PointSet == {[x |-> xy[1], y |-> xy[2], z |-> z] : xy \in XYSet, z \in ZSet}

\* the keypoints' pixel positions, per image and keypoint index
ObsTable(n) ==
    IF n = 1 THEN [i \in Imgs |-> [p \in Kps |-> IF i = 0 THEN <<0, 0>> ELSE <<1, 1>>]]
    ELSE [i \in Imgs |-> [p \in Kps |-> IF i = 0 THEN <<3, 2>> ELSE <<0, 0>>]]

ObsTables == {ObsTable(n) : n \in 1..2}

\* rvec (3), translation (3), f, cx, cy, k1, k2
SampleView(n) ==
    CASE n = 1 -> <<0, 0, 0,  0, 0, 0,  1,  0, 0,  0, 0>>
      [] n = 2 -> <<0, 0, 1,  0, 0, 1,  2,  1, 1,  0, 0>>
      [] OTHER -> <<2, 0, 0,  1, 0, 0,  1,  0, 1,  1, 1>>

SampleViews == {SampleView(n) : n \in 1..3}

\* the cameras of the images: each sample camera occurs at each image
ViewTables ==
    { [i \in Imgs |-> IF i = 0 THEN SampleView(a) ELSE SampleView(1 + (a % 3))] : a \in 1..3 }

ThresholdSet == {-1, 0, 1, 4}

LossWidthSet == {0, 4}

ParamVals == {0, 1}

Keys == {genKey(ToU32(i), ToU32(p)) : i \in Imgs, p \in Kps}

\* every entry names an existing image, keypoint and point: the source
\* indexes xs, views and Xs unchecked, and any other entry is undefined
\* behaviour there
VisibilityGraphs == UNION {[D -> PtIds] : D \in SUBSET Keys}

\* every order in which an unordered_map with these keys can be iterated
Orders(graph) ==
    {o \in [1..Cardinality(DOMAIN graph) -> DOMAIN graph] :
        \A a, b \in DOMAIN o : a # b => o[a] # o[b]}

Idle(name) == [name |-> name, T |-> 0, ret |-> 0, before |-> <<>>]

(***************************************************************************)
(* markNoisyPoints                                                         *)
(***************************************************************************)
Disabled_Strict(reproj_error2) == reproj_error2 < 0

\* the guard of the early return
Disabled(reproj_error2) == reproj_error2 <= 0

IsMarked_Never(X) == FALSE

\* the test that skips a visibility entry: X.z < 0
IsMarked(X) == ZNegative(X)

\* one iteration of the loop over the visibility map, for entry `key`;
\* st = [Xs, n_mark]
MarkVisit(st, obs, vws, graph, key, reproj_error2) ==
    LET id      == graph[key]
        X       == st.Xs[id]
        img_idx == ToInt(getImIdx(key))
        pt_idx  == ToInt(getPtIdx(key))
        x       == obs[img_idx][pt_idx]
        view    == vws[img_idx]
    IN  IF IsMarked(X) THEN st
        ELSE IF FGt(ReprojError2(X, x, view), F(reproj_error2))
             THEN [Xs |-> [st.Xs EXCEPT ![id] = NegateZ(X)], n_mark |-> st.n_mark + 1]
             ELSE st

RECURSIVE MarkLoop(_, _, _, _, _, _)
MarkLoop(st, obs, vws, graph, order, reproj_error2) ==
    IF order = <<>> THEN st
    ELSE MarkLoop(MarkVisit(st, obs, vws, graph, Head(order), reproj_error2),
                  obs, vws, graph, Tail(order), reproj_error2)

\* the call markNoisyPoints(Xs, xs, views, visibility, reproj_error2) when
\* the map is iterated in `order`: the points afterwards and the return value
markNoisyPoints(pts, obs, vws, graph, order, reproj_error2) ==
    IF Disabled(reproj_error2) THEN [Xs |-> pts, ret |-> -1]
    ELSE LET st == MarkLoop([Xs |-> pts, n_mark |-> 0], obs, vws, graph, order,
                            reproj_error2)
         IN  [Xs |-> st.Xs, ret |-> st.n_mark]

InitWorld ==
    /\ Xs \in [PtIds -> PointSet]
    /\ xs \in ObsTables
    /\ views \in ViewTables
    /\ visibility \in VisibilityGraphs
    /\ problem = <<>>
    /\ op = Idle("init")
    /\ nWrites = 0

InitKeyIdle ==
    /\ kImg = U32(0, 0)
    /\ kPt = U32(0, 0)
    /\ kKey = genKey(U32(0, 0), U32(0, 0))

Init == InitWorld /\ InitKeyIdle

MarkNoisyPoints(reproj_error2, order) ==
    LET r == markNoisyPoints(Xs, xs, views, visibility, order, reproj_error2)
    IN  /\ Xs' = r.Xs
        /\ op' = [name |-> "mark", T |-> reproj_error2, ret |-> r.ret, before |-> Xs]
        /\ UNCHANGED <<xs, views, visibility, problem, nWrites>>
        /\ UNCHANGED keyVars

Next ==
    \E T \in ThresholdSet, order \in Orders(visibility) : MarkNoisyPoints(T, order)

Spec == Init /\ [][Next]_vars

(***************************************************************************)
(* Properties of markNoisyPoints                                           *)
(***************************************************************************)
\* a point is invalid when its third coordinate is negative
Invalid(X) == ZVal(X.z) < 0

\* the squared reprojection error of visibility entry `key`, computed for
\* the points `pts`, exceeds T
EntryExceeds(pts, key, T) ==
    FGt(ReprojError2(pts[visibility[key]],
                     xs[ToInt(getImIdx(key))][ToInt(getPtIdx(key))],
                     views[ToInt(getImIdx(key))]),
        F(T))

EntriesOf(p) == {key \in DOMAIN visibility : visibility[key] = p}

AfterMark == op.name = "mark"

\* C2: a call with a threshold <= 0 returns -1 and leaves every point
\* (all three coordinates) as it was.
C2_DisabledNoOp ==
    (AfterMark /\ op.T <= 0) => (op.ret = -1 /\ Xs = op.before)

C2_Witness ==
    /\ AfterMark /\ op.T = 0 /\ op.ret = -1
    /\ \E key \in DOMAIN visibility :
          /\ ~Invalid(Xs[visibility[key]])
          /\ EntryExceeds(Xs, key, op.T)

\* C3: after a call with T > 0 every point that was valid and had an entry
\* whose squared error exceeds T is invalid, so a second call with the same
\* T on the same data returns 0 and changes no point.
C3_SecondCallIdle ==
    (AfterMark /\ op.T > 0) =>
        /\ \A p \in PtIds :
              (~Invalid(op.before[p])
                 /\ \E key \in EntriesOf(p) : EntryExceeds(op.before, key, op.T))
              => Invalid(Xs[p])
        /\ \A order \in Orders(visibility) :
              markNoisyPoints(Xs, xs, views, visibility, order, op.T)
                  = [Xs |-> Xs, ret |-> 0]

\* C4: for T > 0 the return value is non-negative and is the number of
\* distinct points that went from valid to invalid during the call.
C4_CountsNewlyInvalid ==
    (AfterMark /\ op.T > 0) =>
        /\ op.ret >= 0
        /\ op.ret = Cardinality({p \in PtIds : ~Invalid(op.before[p]) /\ Invalid(Xs[p])})

\* C5: a point that is invalid before a call is invalid after it with all
\* three coordinates unchanged; no call makes an invalid point valid.
C5_InvalidStays ==
    AfterMark =>
        \A p \in PtIds : Invalid(op.before[p]) => (Xs[p] = op.before[p] /\ Invalid(Xs[p]))

C5_Witness ==
    /\ AfterMark /\ op.T > 0 /\ op.ret > 0
    /\ \E p \in PtIds :
          /\ Invalid(op.before[p])
          /\ Cardinality(EntriesOf(p)) = 1
          /\ \E key \in EntriesOf(p) : EntryExceeds(op.before, key, op.T)

\* C7: a call changes a point only by flipping the sign of its third
\* coordinate (first two coordinates and the magnitude of the third are
\* kept), and leaves the cameras, the observations and the visibility map
\* unchanged.
C7_OnlySignFlips ==
    [][(op'.name = "mark") =>
          /\ \A p \in PtIds :
                \/ Xs'[p] = Xs[p]
                \/ /\ Xs'[p].x = Xs[p].x
                   /\ Xs'[p].y = Xs[p].y
                   /\ Xs'[p].z.mag = Xs[p].z.mag
                   /\ Xs'[p].z.neg # Xs[p].z.neg
          /\ views' = views
          /\ xs' = xs
          /\ visibility' = visibility]_vars

C7_Witness ==
    /\ AfterMark /\ op.ret = 1
    /\ \E p, q \in PtIds :
          /\ p # q
          /\ op.before[p].x = 1 /\ op.before[p].z.mag = MaxMag
          /\ Xs[p] # op.before[p]
          /\ EntriesOf(q) # {} /\ Xs[q] = op.before[q] /\ ~Invalid(Xs[q])

\* C9: for a threshold T > 0 every iteration order of the visibility map
\* gives the same return value and the same final points.
C9_OrderIndependent ==
    \A T \in ThresholdSet :
        T > 0 =>
            \A o1, o2 \in Orders(visibility) :
                markNoisyPoints(Xs, xs, views, visibility, o1, T)
                    = markNoisyPoints(Xs, xs, views, visibility, o2, T)

C9_Witness ==
    /\ AfterMark /\ op.T > 0 /\ op.ret = 1
    /\ \E p \in PtIds :
          /\ Cardinality(EntriesOf(p)) = 2
          /\ ~Invalid(op.before[p]) /\ Invalid(Xs[p])
          /\ \A key \in EntriesOf(p) : EntryExceeds(op.before, key, op.T)

(***************************************************************************)
(* Residual builders                                                       *)
(*                                                                         *)
(* problem is the sequence of residual blocks of the ceres::Problem.  A    *)
(* block holds its cost functor's members (copies made at construction:    *)
(* the observation x, and c or f where the functor has them), its loss     *)
(* function (<<>> for NULL), and the two parameter blocks by address: view *)
(* is the index of the camera vector in views, X the index of the point in *)
(* Xs.                                                                     *)
(***************************************************************************)
\* loss_func: NULL unless loss_width > 0
LossFunc(loss_width) == IF loss_width > 0 THEN <<loss_width>> ELSE <<>>

Block11DOF(pts, obs, vws, graph, key, loss_width) ==
    LET img_idx == ToInt(getImIdx(key))
        pt_idx  == ToInt(getPtIdx(key))
    IN  [kind |-> 11, x |-> obs[img_idx][pt_idx], f |-> <<>>, c |-> <<>>,
         loss |-> LossFunc(loss_width), view |-> img_idx, X |-> graph[key]]

Block7DOF(pts, obs, vws, graph, key, loss_width) ==
    LET img_idx == ToInt(getImIdx(key))
        pt_idx  == ToInt(getPtIdx(key))
        view    == vws[img_idx]
    IN  [kind |-> 7, x |-> obs[img_idx][pt_idx], f |-> <<>>,
         c |-> <<At(view, 7), At(view, 8)>>,
         loss |-> LossFunc(loss_width), view |-> img_idx, X |-> graph[key]]

Block6DOF(pts, obs, vws, graph, key, loss_width) ==
    LET img_idx == ToInt(getImIdx(key))
        pt_idx  == ToInt(getPtIdx(key))
        view    == vws[img_idx]
    IN  [kind |-> 6, x |-> obs[img_idx][pt_idx], f |-> <<At(view, 6)>>,
         c |-> <<At(view, 7), At(view, 8)>>,
         loss |-> LossFunc(loss_width), view |-> img_idx, X |-> graph[key]]

\* the loops: one block per visibility entry, in iteration order
addCostFunc11DOF(prob, pts, obs, vws, graph, order, loss_width) ==
    prob \o [n \in 1..Len(order) |-> Block11DOF(pts, obs, vws, graph, order[n], loss_width)]

addCostFunc7DOF(prob, pts, obs, vws, graph, order, loss_width) ==
    prob \o [n \in 1..Len(order) |-> Block7DOF(pts, obs, vws, graph, order[n], loss_width)]

addCostFunc6DOF(prob, pts, obs, vws, graph, order, loss_width) ==
    prob \o [n \in 1..Len(order) |-> Block6DOF(pts, obs, vws, graph, order[n], loss_width)]

PrincipalPoint7_Live(block, vws) ==
    <<At(vws[block.view], 7), At(vws[block.view], 8)>>

\* the principal point a block's ReprojectionError7DOF uses: its member c
PrincipalPoint7(block, vws) == block.c

\* the camera parameter block of a block: the first `kind` doubles at the
\* registered address
CameraBlock(block, vws) == SubSeq(vws[block.view], 1, block.kind)

\* the point parameter block of a block
PointBlock(block, pts) == Vec3(pts[block.X])

\* the residual of a ReprojectionError7DOF block for the cameras vws and the
\* points pts
Residual7(block, vws, pts) ==
    LET r == ReprojectionError7DOF(block.x, PrincipalPoint7(block, vws),
                                   CameraBlock(block, vws), PointBlock(block, pts))
    IN  <<Reduced(r[1]), Reduced(r[2])>>

\* the residual of a ReprojectionError11DOF block
Residual11(block, vws, pts) ==
    LET r == ReprojectionError11DOF(block.x, CameraBlock(block, vws), PointBlock(block, pts))
    IN  <<Reduced(r[1]), Reduced(r[2])>>

CanAdd == Len(problem) + Cardinality(DOMAIN visibility) <= MaxBlocks

AddCostFunc11DOF(order, loss_width) ==
    /\ CanAdd
    /\ problem' = addCostFunc11DOF(problem, Xs, xs, views, visibility, order, loss_width)
    /\ op' = [Idle("add11") EXCEPT !.ret = 1]
    /\ UNCHANGED <<Xs, xs, views, visibility, nWrites>>
    /\ UNCHANGED keyVars

AddCostFunc7DOF(order, loss_width) ==
    /\ CanAdd
    /\ problem' = addCostFunc7DOF(problem, Xs, xs, views, visibility, order, loss_width)
    /\ op' = [Idle("add7") EXCEPT !.ret = 1]
    /\ UNCHANGED <<Xs, xs, views, visibility, nWrites>>
    /\ UNCHANGED keyVars

AddCostFunc6DOF(order, loss_width) ==
    /\ CanAdd
    /\ problem' = addCostFunc6DOF(problem, Xs, xs, views, visibility, order, loss_width)
    /\ op' = [Idle("add6") EXCEPT !.ret = 1]
    /\ UNCHANGED <<Xs, xs, views, visibility, nWrites>>
    /\ UNCHANGED keyVars

\* a write of entry k of camera i through the storage the blocks share by
\* address (the solver's write-back, or the caller)
WriteView(i, k, v) ==
    /\ nWrites < MaxWrites
    /\ LET w == [views[i] EXCEPT ![k + 1] = v]
       IN  /\ AxisAligned(<<At(w, 0), At(w, 1), At(w, 2)>>)
           /\ views' = [views EXCEPT ![i] = w]
    /\ nWrites' = nWrites + 1
    /\ op' = Idle("write")
    /\ UNCHANGED <<Xs, xs, visibility, problem>>
    /\ UNCHANGED keyVars

\* the builders' inputs: point 0 takes every third coordinate, every
\* keypoint is visible
BuildPointTables ==
    { [p \in PtIds |-> IF p = 0 THEN [x |-> 1, y |-> 1, z |-> z]
                       ELSE [x |-> 1, y |-> 0, z |-> [neg |-> FALSE, mag |-> 1]]] :
      z \in ZSet }

InitBuild ==
    /\ Xs \in BuildPointTables
    /\ xs = ObsTable(2)
    /\ views \in ViewTables
    /\ visibility \in [Keys -> PtIds]
    /\ problem = <<>>
    /\ op = Idle("init")
    /\ nWrites = 0
    /\ InitKeyIdle

NextBuild ==
    \/ \E order \in Orders(visibility), w \in LossWidthSet : AddCostFunc11DOF(order, w)
    \/ \E order \in Orders(visibility), w \in LossWidthSet : AddCostFunc7DOF(order, w)
    \/ \E order \in Orders(visibility), w \in LossWidthSet : AddCostFunc6DOF(order, w)
    \/ \E i \in Imgs, k \in 0..10, v \in ParamVals : WriteView(i, k, v)

SpecBuild == InitBuild /\ [][NextBuild]_vars

\* C6: no builder registers a residual block on the parameter block of a
\* point whose third coordinate is negative.
C6_NoInvalidPointRegistered ==
    [][\A n \in (Len(problem) + 1)..Len(problem') : ~Invalid(Xs[problem'[n].X])]_vars

\* C10: the principal point of a ReprojectionError7DOF block is the pair of
\* entries 7 and 8 of its camera at construction and never changes
\* afterwards; a step that changes only entries 7 and 8 of cameras leaves
\* the block's residual unchanged, and the block's camera parameters are
\* the current entries 0..6 of the registered camera.
C10_PrincipalPointSnapshot ==
    [][/\ \A n \in 1..Len(problem) :
             problem[n].kind = 7 =>
                /\ problem'[n] = problem[n]
                /\ PrincipalPoint7(problem'[n], views') = PrincipalPoint7(problem[n], views)
                /\ CameraBlock(problem'[n], views') = SubSeq(views'[problem[n].view], 1, 7)
                /\ (Xs' = Xs /\ \A i \in Imgs : SubSeq(views'[i], 1, 7) = SubSeq(views[i], 1, 7))
                      => Residual7(problem'[n], views', Xs') = Residual7(problem[n], views, Xs)
       /\ \A n \in (Len(problem) + 1)..Len(problem') :
             problem'[n].kind = 7 =>
                PrincipalPoint7(problem'[n], views')
                    = <<At(views[problem'[n].view], 7), At(views[problem'[n].view], 8)>>]_vars

C10_Witness ==
    \E n \in 1..Len(problem) :
        /\ problem[n].kind = 7
        /\ op.name = "write"
        /\ ~ZNegative(Xs[problem[n].X])
        /\ PrincipalPoint7(problem[n], views)
              # <<At(views[problem[n].view], 7), At(views[problem[n].view], 8)>>

(***************************************************************************)
(* Key encoding: inputs and actions                                        *)
(***************************************************************************)
HalfSamples == {0, 1, 2, 32768, 65534, 65535}

U32Samples == {U32(h, l) : h \in HalfSamples, l \in HalfSamples}

\* the index fits in 16 bits
InRange16(u) == u.hi = 0

InitWorldIdle ==
    /\ Xs = <<>>
    /\ xs = <<>>
    /\ views = <<>>
    /\ visibility = <<>>
    /\ problem = <<>>
    /\ op = Idle("init")
    /\ nWrites = 0

InitKey == InitKeyIdle /\ InitWorldIdle

\* a key is generated for image index i and keypoint index p
EncodeKey(i, p) ==
    /\ kImg' = i
    /\ kPt' = p
    /\ kKey' = genKey(i, p)
    /\ UNCHANGED worldVars

NextKey == \E i \in U32Samples, p \in U32Samples : EncodeKey(i, p)

SpecKey == InitKey /\ [][NextKey]_vars

\* C1: for image and keypoint indices below 2^16, decoding the key gives
\* back the image index and the keypoint index, and no other in-range pair
\* encodes to the same key (genKey is injective on that range).
C1_RoundTrip ==
    (InRange16(kImg) /\ InRange16(kPt)) =>
        /\ getImIdx(kKey) = kImg
        /\ getPtIdx(kKey) = kPt
        /\ \A i \in U32Samples, p \in U32Samples :
              (InRange16(i) /\ InRange16(p) /\ genKey(i, p) = kKey)
                  => (i = kImg /\ p = kPt)

C1_Witness ==
    /\ InRange16(kImg) /\ InRange16(kPt)
    /\ kImg.lo = 65535 /\ kPt.lo = 65535
    /\ kKey = U32(65535, 65535)

\* C8 as stated: both indices are truncated to 16 bits independently, so an
\* out-of-range keypoint index never alters the decoded image index.
C8_TruncatesBoth ==
    /\ getImIdx(kKey) = Mask16(kImg)
    /\ getPtIdx(kKey) = Mask16(kPt)

\* C8 amended: the decoded keypoint index is p mod 2^16, and the decoded
\* image index is (i + floor(p / 2^16)) mod 2^16: the high half of an
\* out-of-range keypoint index is added into the image index.
C8_CarryIntoImage ==
    /\ getPtIdx(kKey) = Mask16(kPt)
    /\ getImIdx(kKey) = U32(0, (kImg.lo + kPt.hi) % Half)

C8_Witness ==
    /\ kPt.hi > 0
    /\ kImg.hi > 0
    /\ kKey = genKey(kImg, kPt)
    /\ getImIdx(kKey) # Mask16(kImg)

====
